---- MODULE Spec2Model ----
(***************************************************************************)
(* POP3 -> Gmail importer: the statistics store (stats_store.js), the      *)
(* per-account transfer pipeline and main loop (pop3_to_gmail.js in its    *)
(* two revisions) and the OAuth hand-off between the main loop and the     *)
(* status server (the Gmail helpers in their two revisions).               *)
(*                                                                         *)
(* Time is counted in hours: Date.now() is read as Timeline[clock], and    *)
(* every window of the store (24*60*60*1000 ms and its multiples) is a     *)
(* whole number of hours.                                                  *)
(***************************************************************************)
EXTENDS Integers, Sequences, FiniteSets, TLC

(***************************************************************************)
(* Bounds of the model                                                     *)
(***************************************************************************)
\* the clock is advanced up to this index of Timeline
MaxTick == 5
\* direct calls of recordImport are made on logs shorter than this
MaxLog == 2
\* messages in a mailbox at the start
MaxMsgs == 3
\* iterations of the main while loop
MaxCycles == 2
\* access tokens the provider issues
MaxTokens == 2
\* HTTP requests the status server receives
MaxRequests == 2
\* failed requests to the POP3 servers, the Gmail API and the token endpoint
MaxFaults == 2

(***************************************************************************)
(* Program constants (stats_store.js)                                      *)
(***************************************************************************)
HoursPerDay == 24
WeekDays == 7
MonthDays == 30
YearDays == 365
RetentionDays == 400

\* the instants at which the wall clock is read, in hours; the gaps put
\* entries on both sides of the day edge (24) and of the retention edge
\* (9600)
Timeline == <<1, 25, 26, 9601, 9602, 9626, 19300>>

\* cfg.accounts, in array order
AccountOrder == <<"A", "B">>
Accounts == {AccountOrder[k] : k \in 1..Len(AccountOrder)}

\* the two revisions of the program: "fn" is pop3_to_gmail.js with the Gmail
\* helper functions, "cls" is the later main file with the GmailClient class
Variants == {"fn", "cls"}

NoTs == -1
NoSync == [time |-> -1, status |-> "none", message |-> "null"]
Statuses == {"started", "success", "fail"}
Messages == {"null", "error"}

VARIABLES
    clock,          \* index of the current instant in Timeline
    data,           \* StatsStore._data
    statsFile,      \* TRUE when the stats file holds the in-memory data
    op,             \* the last call made on the store, with what it returned
    variant,        \* the revision that runs
    faults,         \* failures of the mail servers and the provider so far
    pc,             \* where main() is suspended
    shuttingDown,
    cycle,          \* iterations of the main while loop started so far
    acct,           \* index in cfg.accounts of the for loop
    i, count,       \* processAccount's message loop
    mailbox,        \* per account, the messages held by the POP3 server
    pop,            \* the POP3 session: "closed" or "open"
    session,        \* the maildrop as listed by the open session, by index
    marked,         \* indices marked deleted in the open session
    labels,         \* the labels of the Gmail account, as labels.list answers
    pending,        \* import requests sent and not yet answered (cls)
    doomed,         \* how many of the pending requests will be rejected
    h,              \* what happened in the current account's pass
    retained,       \* per account, the messages submitted without an id
    ensured,        \* per label name, the getOrCreateLabel calls that returned
    passes,         \* the processAccount calls of main(): starts and ends
    tokenFile,      \* content of gmail.token_file, NoToken when absent
    issued,         \* access tokens issued by the provider so far
    withRt,         \* the access tokens that came with a refresh token
    creds,          \* oauth2Client.credentials of the client in use
    expiry_date,    \* of the token as read from the file: "soon" (expired or
                    \* within 60 s), "later"; "none" once main() has gone on
    apiUse,         \* the token of the last Gmail API request
    gen,            \* OAuth2 clients built so far; the newest is in use
    authWaiters,    \* pathname -> the client whose promise waits there
    settled,        \* the clients whose waiter promise is settled
    awaitingAuth,   \* cls: the module flag
    authorizeUrl,   \* fn: the module variable, 0 for null
    exchanges,      \* getToken calls that have not answered yet
    invoked,        \* per client, calls of its waiter's resolve and reject
    requests,       \* HTTP requests served so far
    resp            \* the answer to the last HTTP request

statsVars == <<clock, data, statsFile>>
loopVars == <<pc, shuttingDown, cycle, acct, i, count>>
mailVars == <<mailbox, pop, session, marked, labels, pending, doomed>>
histVars == <<h, retained, ensured, passes>>
credVars == <<tokenFile, issued, withRt, creds, expiry_date>>
webVars == <<gen, authWaiters, settled, awaitingAuth, authorizeUrl, exchanges,
             invoked, requests, resp>>
authVars == <<credVars, webVars>>
sysVars == <<variant, faults, loopVars, mailVars, histVars, apiUse, authVars>>
vars == <<statsVars, op, sysVars>>

Now == Timeline[clock]

(***************************************************************************)
(* stats_store.js                                                          *)
(***************************************************************************)
EmptyAccount == [imports |-> <<>>, last_sync |-> NoSync]

\* loadRaw for a missing or unreadable file
loadRaw(now) == [updatedAt |-> now, accounts |-> <<>>]

_ensureAccount(d, name) ==
    IF name \in DOMAIN d.accounts
    THEN d
    ELSE [d EXCEPT !.accounts = (name :> EmptyAccount) @@ d.accounts]

\* acc.imports.filter((x) => x >= cutoff)
pruneBroken(imports, now) == imports
prune(imports, now) ==
    LET cutoff == now - RetentionDays * HoursPerDay
    IN  SelectSeq(imports, LAMBDA x : x >= cutoff)

\* _persist: stamps updatedAt; the write itself is saveRaw (best effort)
_persist(d, now) == [d EXCEPT !.updatedAt = now]

\* const t = ts || Date.now()
importTime(ts, now) == IF ts = NoTs \/ ts = 0 THEN now ELSE ts

recordImportBroken(d, accountName, ts, now) ==
    LET d1 == _ensureAccount(d, accountName)
        t == importTime(ts, now)
        pushed == Append(d1.accounts[accountName].imports, t)
        d2 == [d1 EXCEPT !.accounts[accountName].imports = pushed]
    IN  _persist([d2 EXCEPT !.accounts =
                     [b \in DOMAIN d2.accounts |->
                         [d2.accounts[b] EXCEPT !.imports = prune(@, now)]]], now)
recordImport(d, accountName, ts, now) ==
    LET d1 == _ensureAccount(d, accountName)
        t == importTime(ts, now)
        pushed == Append(d1.accounts[accountName].imports, t)
    IN  _persist([d1 EXCEPT !.accounts[accountName].imports = prune(pushed, now)], now)

recordSyncStatus(d, accountName, status, message, now) ==
    LET d1 == _ensureAccount(d, accountName)
    IN  _persist([d1 EXCEPT !.accounts[accountName].last_sync =
                     [time |-> now, status |-> status, message |-> message]], now)

CountSinceBroken(imports, from) == Len(SelectSeq(imports, LAMBDA t : t <= from))
CountSince(imports, from) == Len(SelectSeq(imports, LAMBDA t : t >= from))

_countsBroken(imports, now) ==
    [day   |-> CountSince(imports, now - HoursPerDay),
     week  |-> CountSince(imports, now - WeekDays),
     month |-> CountSince(imports, now - MonthDays * HoursPerDay),
     year  |-> CountSince(imports, now - YearDays * HoursPerDay),
     total |-> Len(imports)]
_counts(imports, now) ==
    [day   |-> CountSince(imports, now - HoursPerDay),
     week  |-> CountSince(imports, now - WeekDays * HoursPerDay),
     month |-> CountSince(imports, now - MonthDays * HoursPerDay),
     year  |-> CountSince(imports, now - YearDays * HoursPerDay),
     total |-> Len(imports)]

getAccountStats(d, accountName, now) ==
    LET acc == IF accountName \in DOMAIN d.accounts
               THEN d.accounts[accountName] ELSE EmptyAccount
    IN  [account |-> accountName,
         last_sync |-> acc.last_sync,
         counts |-> _counts(acc.imports, now)]

getAllStats(d, now) ==
    [updatedAt |-> d.updatedAt,
     accounts |-> [name \in DOMAIN d.accounts |-> getAccountStats(d, name, now)]]

ImportsOf(d, a) == IF a \in DOMAIN d.accounts THEN d.accounts[a].imports ELSE <<>>

\* saveRaw: the file takes the new content, or the write fails and is
\* swallowed; statsFile tells whether the file holds the in-memory data
saveRaw(d) == \E ok \in BOOLEAN : statsFile' = ok

NoCounts == [day |-> 0, week |-> 0, month |-> 0, year |-> 0, total |-> 0]
NoOp == [name |-> "none", account |-> "none", counts |-> NoCounts, stale |-> 0]

\* the number of entries of a's log that are older than the retention horizon
Stale(d, a, now) ==
    Len(ImportsOf(d, a)) - CountSince(ImportsOf(d, a), now - RetentionDays * HoursPerDay)

(***************************************************************************)
(* The mailbox, the Gmail account and the credentials                      *)
(***************************************************************************)
Token(a, r) == [access |-> a, refresh |-> r]
NoToken == Token(0, 0)

Min(S) == CHOOSE x \in S : \A y \in S : x <= y

RECURSIVE SortedSeq(_)
\* the maildrop of a session: the messages present at login, numbered from 1
SortedSeq(S) == IF S = {} THEN <<>> ELSE <<Min(S)>> \o SortedSeq(S \ {Min(S)})

\* what users.messages.import answers: {id: ...}, {} or an error
ApiOutcomes == {"id", "noid", "throw"}

\* if (result && result.id)
hasIdBroken(result) == result \in {"id", "noid"}
hasId(result) == result = "id"

\* importMessage as processAccount sees it.  The function of the helper
\* module awaits the request and returns res.data; the method of the class
\* reads .data off the pending promise, which is undefined
importMessage(v, outcome) == IF v = "fn" THEN outcome ELSE "undef"

\* labels.find((l) => l.name === labelName): the index of the first label
\* of that name in the list, 0 when there is none
findBroken(ls, name) == 0
find(ls, name) ==
    IF \E k \in 1..Len(ls) : ls[k].name = name
    THEN Min({k \in 1..Len(ls) : ls[k].name = name})
    ELSE 0

\* users.labels.create: the service appends the label under a new id
createLabel(ls, name) == Append(ls, [name |-> name, id |-> Len(ls) + 1])

\* a getOrCreateLabel call has returned: the id it returned and how many
\* labels.create requests it sent
Ensured(name, id, creates) ==
    ensured' = [ensured EXCEPT ![name] = Append(@, [id |-> id, creates |-> creates])]

Slots == [k \in 1..MaxMsgs |-> "none"]
NoPass == [account |-> "none", api |-> Slots, res |-> Slots, dele |-> Slots,
           recorded |-> 0, day0 |-> 0, end |-> "none", fails |-> {}]
FreshPass(a) == [NoPass EXCEPT !.account = a, !.end = "running",
                               !.day0 = getAccountStats(data, a, Now).counts.day]

\* the awaits of main(): anything else runs to the next await in one go
Awaits == {"refresh", "await_cb", "auth", "label_list", "label_create",
           "connect", "stat", "retr", "import", "dele", "quit", "sleep"}
Exited == {"exit0", "exit1", "killed"}

Acc == AccountOrder[acct]

\* a request to a mail server or to the provider fails
Fault ==
    /\ faults < MaxFaults
    /\ faults' = faults + 1

Record(a, status, message) ==
    /\ data' = recordSyncStatus(data, a, status, message, Now)
    /\ saveRaw(data')

CallbackPath == "/oauthcallback"
Paths == {CallbackPath, "/status", "/favicon.ico"}
\* the request target as sent: relative to the server, or a full URL
Forms == {"origin", "absolute"}
\* what the query of a request carries: a code the provider accepts, a code
\* it refuses, or an error parameter
Queries == {"code", "badcode", "error"}
\* the Host header of a request: the machine itself, or its name on the network
Hosts == {"localhost:3000", "nas.lan:3000"}
\* redirect_uris[0] of the credentials file, as host and pathname
ConfiguredRedirect == <<"localhost:3000", CallbackPath>>
\* the address of the redirect helper given to startStatusServer
SecondHop == <<"secondhop">>
\* no link on the page
NoUrl == [redirect_uri |-> <<>>, state |-> <<>>]

\* oauth2Client.generateAuthUrl: client id and scopes come from the
\* configuration, so two URLs differ by their redirect target and state only
generateAuthUrlBroken(redirectUri, secondhop) ==
    [redirect_uri |-> redirectUri, state |-> secondhop \o <<gen>>]
generateAuthUrl(redirectUri, secondhop) ==
    [redirect_uri |-> redirectUri, state |-> secondhop]

\* fn: the redirect_uri of the stored URL gets the host of the request, the
\* pathname is kept
modifyOAuthUrl(host, originalUrl) ==
    IF originalUrl.redirect_uri = <<>> THEN originalUrl
    ELSE [originalUrl EXCEPT !.redirect_uri = <<host, originalUrl.redirect_uri[2]>>]

\* cls: the redirect target the status page asks for: the callback itself
\* when the page was reached as localhost, else the redirect helper with
\* the encoded callback as state
isLocal(host) == host = "localhost:3000"
redirectUri(host) == IF isLocal(host) THEN <<host, CallbackPath>> ELSE SecondHop
redirectParam(host) == IF isLocal(host) THEN <<>> ELSE <<"SECONDHOPLINK", host, CallbackPath>>

\* cls: GmailClient.getAuthorizeUrl
getAuthorizeUrl(redirect, secondhop) ==
    IF ~awaitingAuth \/ gen = 0 THEN NoUrl ELSE generateAuthUrl(redirect, secondhop)

NoResp == [code |-> 0, path |-> "none", query |-> "none", link |-> FALSE,
           waiter |-> 0, exchange |-> FALSE, host |-> "none", url |-> NoUrl,
           attempt |-> 0]
\* a request as it arrives: nothing is answered yet (host, url and attempt
\* are filled in by a status page that shows the link: the Host header it
\* was asked under, the href of the link, and the client in use)
Request(path, q) == [NoResp EXCEPT !.path = path, !.query = q]
NoUse == [access |-> 0, saved |-> TRUE]
Clients == 1..(MaxCycles + 1)

\* authWaiters.set(pathname, waiter): a Map holds one entry per key, a
\* second set on a key replaces the entry
set(ws, pathname, g) == (pathname :> g) @@ ws

\* the module state of the Gmail helpers and the server before main() runs
InitWeb ==
    /\ gen = 0
    /\ authWaiters = <<>>
    /\ settled = {}
    /\ awaitingAuth = FALSE
    /\ authorizeUrl = 0
    /\ exchanges = <<>>
    /\ invoked = [g \in Clients |-> 0]
    /\ requests = 0
    /\ resp = NoResp

\* a Gmail API request is sent with the credentials of the client: saved tells
\* whether the token, when it came with a refresh token, has been written to
\* the token file (the provider numbers its tokens upwards)
Use(c) == [access |-> c.access,
           saved |-> c.access \in withRt => tokenFile.refresh >= c.access]

\* the constructor of the store: the file is read, the clock starts
InitStore ==
    /\ clock = 1
    /\ data = loadRaw(Now)
    /\ statsFile = TRUE
    /\ op = NoOp

\* the state of the variables of a process that has not started
InitIdle ==
    /\ variant = "cls"
    /\ faults = 0
    /\ pc = "exit0"
    /\ shuttingDown = FALSE
    /\ cycle = 0
    /\ acct = 0
    /\ i = 0
    /\ count = 0
    /\ mailbox = [a \in Accounts |-> {}]
    /\ pop = "closed"
    /\ session = <<>>
    /\ marked = {}
    /\ labels = <<>>
    /\ pending = 0
    /\ doomed = 0
    /\ h = NoPass
    /\ retained = [a \in Accounts |-> {}]
    /\ ensured = [a \in Accounts |-> <<>>]
    /\ passes = <<>>
    /\ tokenFile = NoToken
    /\ issued = 0
    /\ withRt = {}
    /\ creds = NoToken
    /\ expiry_date = "none"
    /\ apiUse = NoUse
    /\ InitWeb

(***************************************************************************)
(* main(): the loop over the cycles and the accounts                       *)
(***************************************************************************)
\* how far the expiry of the access token in the file is when it is read
Expiries == {"soon", "later"}

\* token.refresh_token && token.expiry_date && token.expiry_date - Date.now() < 60000
expiringSoon(token, e) == token.refresh # 0 /\ e = "soon"

\* fn: getOauthClient with a token file (the web flow is GetOauthClientWeb)
GetOauthClientLoad ==
    /\ variant = "fn"
    /\ pc = "start"
    /\ tokenFile # NoToken
    /\ creds' = tokenFile
    /\ gen' = 1
    /\ \E e \in Expiries :
          /\ expiry_date' = e
          /\ pc' = IF expiringSoon(tokenFile, e) THEN "refresh" ELSE "loop"
    /\ UNCHANGED <<statsVars, op, variant, faults, shuttingDown, cycle, acct, i, count,
                   mailVars, histVars, apiUse, tokenFile, issued, withRt,
                   authWaiters, settled, awaitingAuth, authorizeUrl, exchanges,
                   invoked, requests, resp>>

\* fn: the proactive refresh of getOauthClient; the signal handlers are set
\* after getOauthClient has returned
GetOauthClientRefreshed ==
    /\ variant = "fn"
    /\ pc = "refresh"
    /\ \/ /\ issued < MaxTokens
          /\ creds' = Token(issued + 1, creds.refresh)
          /\ issued' = issued + 1
          /\ tokenFile' = creds'
          /\ UNCHANGED faults
       \/ /\ Fault
          /\ UNCHANGED <<creds, issued, tokenFile>>
    /\ pc' = "loop"
    /\ UNCHANGED <<statsVars, op, variant, shuttingDown, cycle, acct, i, count,
                   mailVars, histVars, apiUse, withRt, expiry_date, webVars>>

\* while (!shuttingDown)
LoopExit ==
    /\ pc = "loop"
    /\ shuttingDown
    /\ pc' = "exit0"
    /\ expiry_date' = "none"
    /\ UNCHANGED <<statsVars, op, variant, faults, shuttingDown, cycle, acct, i, count,
                   mailVars, histVars, apiUse, tokenFile, issued, withRt, creds, webVars>>

\* fn: the body of the while loop starts the for loop
LoopFn ==
    /\ variant = "fn"
    /\ pc = "loop"
    /\ ~shuttingDown
    /\ acct' = 1
    /\ cycle' = cycle + 1
    /\ pc' = "acct"
    /\ expiry_date' = "none"
    /\ UNCHANGED <<statsVars, op, variant, faults, shuttingDown, i, count,
                   mailVars, histVars, apiUse, tokenFile, issued, withRt, creds, webVars>>

\* cls: new GmailClient(cfg) registers its waiter; authenticate() reads the
\* token file and asks for an access token when it holds a refresh token,
\* else it sets awaitingAuth and answers { res: null }
LoopCls ==
    /\ variant = "cls"
    /\ pc = "loop"
    /\ ~shuttingDown
    /\ cycle' = cycle + 1
    /\ gen' = gen + 1
    /\ authWaiters' = set(authWaiters, CallbackPath, gen + 1)
    /\ creds' = tokenFile
    /\ IF tokenFile # NoToken /\ tokenFile.refresh # 0
       THEN /\ pc' = "auth"
            /\ expiry_date' \in Expiries
            /\ UNCHANGED awaitingAuth
       ELSE /\ awaitingAuth' = TRUE
            /\ expiry_date' = "none"
            /\ pc' = "after"
    /\ UNCHANGED <<statsVars, op, variant, faults, shuttingDown, acct, i, count,
                   mailVars, histVars, apiUse, tokenFile, issued, withRt,
                   settled, authorizeUrl, exchanges, invoked, requests, resp>>

\* cls: gmailclient.authenticate() has answered with a token: the for loop starts.
\* getAccessToken is called whatever the expiry; the library answers with the
\* token it holds, or refreshes first: always when the token has expired, and
\* by its own horizon before that.  A refresh that the provider answers with
\* a new refresh token is saved by the "tokens" listener; then
\* setCredentials({ access_token: res.token })
AuthenticateOk ==
    /\ variant = "cls"
    /\ pc = "auth"
    /\ expiry_date' = "none"
    /\ \/ /\ expiry_date = "later"
          /\ creds' = Token(creds.access, 0)
          /\ UNCHANGED <<issued, tokenFile, withRt>>
       \/ /\ issued < MaxTokens
          /\ issued' = issued + 1
          /\ creds' = Token(issued + 1, 0)
          /\ \E rotated \in BOOLEAN :
                /\ tokenFile' = IF rotated THEN Token(issued + 1, issued + 1) ELSE tokenFile
                /\ withRt' = IF rotated THEN withRt \cup {issued + 1} ELSE withRt
    /\ acct' = 1
    /\ pc' = "acct"
    /\ UNCHANGED <<statsVars, op, variant, faults, shuttingDown, cycle, i, count,
                   mailVars, histVars, apiUse, webVars>>

\* cls: the refresh is refused.  With an HTTP answer the catch sets
\* awaitingAuth and answers without a token; without one (a network error)
\* err.response.data throws inside the catch and main() rejects
AuthenticateFail ==
    /\ variant = "cls"
    /\ pc = "auth"
    /\ Fault
    /\ \/ /\ awaitingAuth' = TRUE
          /\ pc' = "after"
       \/ /\ pc' = "exit1"
          /\ UNCHANGED awaitingAuth
    /\ expiry_date' = "none"
    /\ UNCHANGED <<statsVars, op, variant, shuttingDown, cycle, acct, i, count,
                   mailVars, histVars, apiUse, tokenFile, issued, withRt, creds,
                   gen, authWaiters, settled,
                   authorizeUrl, exchanges, invoked, requests, resp>>

\* if (shuttingDown) break; at the head of the for loop over the accounts
breakForBroken == FALSE
breakFor == shuttingDown

\* for (const account of cfg.accounts): past the last account, or shutting down
ForDone ==
    /\ pc = "acct"
    /\ acct > Len(AccountOrder) \/ breakFor
    /\ pc' = "after"
    /\ UNCHANGED <<statsVars, op, variant, faults, shuttingDown, cycle, acct, i, count,
                   mailVars, histVars, apiUse, authVars>>

\* processAccount up to its first await: 'started' is recorded, the label
\* list is requested
ProcessAccountStart ==
    /\ pc = "acct"
    /\ acct <= Len(AccountOrder)
    /\ ~breakFor
    /\ Record(Acc, "started", "null")
    /\ h' = FreshPass(Acc)
    /\ passes' = Append(passes, [cycle |-> cycle, acct |-> acct, ev |-> "start"])
    /\ i' = 0
    /\ count' = 0
    /\ pc' = "label_list"
    /\ UNCHANGED <<clock, op, variant, faults, shuttingDown, cycle, acct,
                   mailVars, retained, ensured, apiUse, authVars>>

\* processAccount has thrown or returned: main() goes on with the next account
NextAccountBroken(end) ==
    /\ h' = [h EXCEPT !.end = end]
    /\ passes' = Append(passes, [cycle |-> cycle, acct |-> acct, ev |-> "end"])
    /\ acct' = IF acct > 1 THEN 1 ELSE acct + 1
    /\ pc' = "acct"
NextAccount(end) ==
    /\ h' = [h EXCEPT !.end = end]
    /\ passes' = Append(passes, [cycle |-> cycle, acct |-> acct, ev |-> "end"])
    /\ acct' = acct + 1
    /\ pc' = "acct"

\* getOrCreateLabel: labels.list answers; a failure is rethrown
LabelList ==
    /\ pc = "label_list"
    /\ \/ /\ IF find(labels, Acc) # 0
             THEN /\ Ensured(Acc, labels[find(labels, Acc)].id, 0)
                  /\ pc' = "connect"
             ELSE /\ pc' = "label_create"
                  /\ UNCHANGED ensured
          /\ UNCHANGED <<h, passes, acct, faults>>
       \/ /\ Fault
          /\ NextAccount("threw")
          /\ UNCHANGED ensured
    /\ apiUse' = Use(creds)
    /\ UNCHANGED <<statsVars, op, variant, shuttingDown, cycle, i, count,
                   mailVars, retained, authVars>>

\* getOrCreateLabel: labels.create answers
LabelCreate ==
    /\ pc = "label_create"
    /\ \/ /\ labels' = createLabel(labels, Acc)
          /\ Ensured(Acc, Len(labels) + 1, 1)
          /\ pc' = "connect"
          /\ UNCHANGED <<h, passes, acct, faults>>
       \/ /\ Fault
          /\ NextAccount("threw")
          /\ UNCHANGED ensured
          /\ UNCHANGED labels
    /\ apiUse' = Use(creds)
    /\ UNCHANGED <<statsVars, op, variant, shuttingDown, cycle, i, count,
                   mailbox, pop, session, marked, pending, doomed, retained, authVars>>

\* popConnect: login succeeded, or the connection or the login failed
PopConnectBroken ==
    /\ pc = "connect"
    /\ \/ /\ pop' = "open"
          /\ session' = SortedSeq(mailbox[Acc])
          /\ marked' = {}
          /\ UNCHANGED <<data, statsFile, h, faults>>
       \/ /\ Fault
          /\ Record(Acc, "fail", "error")
          /\ h' = [h EXCEPT !.fails = @ \cup {"connect"}]
          /\ UNCHANGED <<pop, session, marked>>
    /\ pc' = "stat"
    /\ UNCHANGED <<clock, op, variant, shuttingDown, cycle, acct, i, count, passes,
                   mailbox, labels, pending, doomed, retained, ensured, apiUse, authVars>>
PopConnect ==
    /\ pc = "connect"
    /\ \/ /\ pop' = "open"
          /\ session' = SortedSeq(mailbox[Acc])
          /\ marked' = {}
          /\ pc' = "stat"
          /\ UNCHANGED <<data, statsFile, h, passes, acct, faults>>
       \/ /\ Fault
          /\ Record(Acc, "fail", "error")
          /\ h' = [h EXCEPT !.end = "returned", !.fails = @ \cup {"connect"}]
          /\ passes' = Append(passes, [cycle |-> cycle, acct |-> acct, ev |-> "end"])
          /\ acct' = acct + 1
          /\ pc' = "acct"
          /\ UNCHANGED <<pop, session, marked>>
    /\ UNCHANGED <<clock, op, variant, shuttingDown, cycle, i, count,
                   mailbox, labels, pending, doomed, retained, ensured, apiUse, authVars>>

\* popStat
PopStat ==
    /\ pc = "stat"
    /\ \/ /\ count' = Len(session)
          /\ i' = 1
          /\ pc' = "msg"
          /\ UNCHANGED <<data, statsFile, h, faults>>
       \/ /\ Fault
          /\ Record(Acc, "fail", "error")
          /\ h' = [h EXCEPT !.fails = @ \cup {"stat"}]
          /\ pc' = "quit"
          /\ UNCHANGED <<i, count>>
    /\ UNCHANGED <<clock, op, variant, shuttingDown, cycle, acct,
                   mailVars, retained, ensured, passes, apiUse, authVars>>

\* for (let i = 1; i <= count; i++) { if (shuttingDown) break; ... popRetr
MsgNext ==
    /\ pc = "msg"
    /\ i <= count
    /\ ~shuttingDown
    /\ pc' = "retr"
    /\ UNCHANGED <<statsVars, op, variant, faults, shuttingDown, cycle, acct, i, count,
                   mailVars, histVars, apiUse, authVars>>

\* the message loop is over; cls records 'success' here, fn in its finally
MsgDone ==
    /\ pc = "msg"
    /\ i > count \/ shuttingDown
    /\ IF variant = "cls"
       THEN Record(Acc, "success", "null")
       ELSE UNCHANGED <<data, statsFile>>
    /\ pc' = "quit"
    /\ UNCHANGED <<clock, op, variant, faults, shuttingDown, cycle, acct, i, count,
                   mailVars, histVars, apiUse, authVars>>

\* fn: popRetr answers; on success the message is handed to importMessage,
\* which awaits the import request
PopRetrFn ==
    /\ variant = "fn"
    /\ pc = "retr"
    /\ \/ \E o \in ApiOutcomes :
            /\ IF o = "id" THEN UNCHANGED faults ELSE Fault
            /\ h' = [h EXCEPT !.api[i] = o, !.res[i] = "sent"]
            /\ pc' = "import"
            /\ UNCHANGED i
       \/ /\ Fault
          /\ h' = [h EXCEPT !.res[i] = "nofetch"]
          /\ i' = i + 1
          /\ pc' = "msg"
    /\ UNCHANGED <<statsVars, op, variant, shuttingDown, cycle, acct, count,
                   mailVars, retained, ensured, passes, apiUse, authVars>>

\* cls: popRetr answers; on success importMessage sends the import request
\* and returns at once, and processAccount tests what it returned
PopRetrCls ==
    /\ variant = "cls"
    /\ pc = "retr"
    /\ \/ \E o \in ApiOutcomes :
            LET result == importMessage(variant, o)
            IN  /\ IF o = "id" THEN UNCHANGED faults ELSE Fault
                /\ pending' = pending + 1
                /\ doomed' = doomed + (IF o = "throw" THEN 1 ELSE 0)
                /\ apiUse' = Use(creds)
                /\ IF hasId(result)
                   THEN /\ h' = [h EXCEPT !.api[i] = o, !.res[i] = result,
                                          !.dele[i] = "sent"]
                        /\ pc' = "dele"
                        /\ UNCHANGED i
                   ELSE /\ h' = [h EXCEPT !.api[i] = o, !.res[i] = result]
                        /\ i' = i + 1
                        /\ pc' = "msg"
       \/ /\ Fault
          /\ h' = [h EXCEPT !.res[i] = "nofetch"]
          /\ i' = i + 1
          /\ pc' = "msg"
          /\ UNCHANGED <<pending, doomed, apiUse>>
    /\ UNCHANGED <<statsVars, op, variant, shuttingDown, cycle, acct, count,
                   mailbox, pop, session, marked, labels, retained, ensured, passes, authVars>>

\* fn: the import request is answered; with an id the DELE is sent
ImportDone ==
    /\ variant = "fn"
    /\ pc = "import"
    /\ LET result == importMessage(variant, h.api[i])
       IN  IF hasId(result)
           THEN /\ h' = [h EXCEPT !.res[i] = result, !.dele[i] = "sent"]
                /\ pc' = "dele"
                /\ UNCHANGED i
           ELSE /\ h' = [h EXCEPT !.res[i] = result]
                /\ i' = i + 1
                /\ pc' = "msg"
    /\ apiUse' = Use(creds)
    /\ UNCHANGED <<statsVars, op, variant, faults, shuttingDown, cycle, acct, count,
                   mailVars, retained, ensured, passes, authVars>>

\* await popDele(pop, i); stats.recordImport(account.name): the store after
\* the DELE has answered; a rejected DELE skips the call
deletedBroken(d, a, ok) == recordImport(d, a, NoTs, Now)
deleted(d, a, ok) == IF ok THEN recordImport(d, a, NoTs, Now) ELSE d

\* popDele answers: +OK marks the message and the import is recorded
PopDele ==
    /\ pc = "dele"
    /\ \/ /\ marked' = marked \cup {i}
          /\ data' = deleted(data, Acc, TRUE)
          /\ saveRaw(data')
          /\ h' = [h EXCEPT !.dele[i] = "ok", !.recorded = @ + 1]
          /\ UNCHANGED faults
       \/ /\ Fault
          /\ h' = [h EXCEPT !.dele[i] = "fail"]
          /\ data' = deleted(data, Acc, FALSE)
          /\ UNCHANGED <<marked, statsFile>>
    /\ i' = i + 1
    /\ pc' = "msg"
    /\ UNCHANGED <<clock, op, variant, shuttingDown, cycle, acct, count,
                   mailbox, pop, session, labels, pending, doomed, retained, ensured, passes,
                   apiUse, authVars>>

\* the messages of the pass that were handed to importMessage and got no id
Unconfirmed == {session[k] : k \in {x \in 1..count : h.res[x] \in {"noid", "throw", "undef"}}}

\* what the POP3 server removes when the session ends with QUIT: the messages
\* whose DELE it has acknowledged
CommittedBroken == {session[k] : k \in 1..Len(session)}
Committed == {session[k] : k \in marked}

\* acc.last_sync.status === 'started'
stillStartedBroken(d, a) == TRUE
stillStarted(d, a) == getAccountStats(d, a, Now).last_sync.status = "started"

\* popQuit answers: the server removes the marked messages; fn then turns a
\* last_sync still 'started' into 'success'
PopQuit ==
    /\ pc = "quit"
    /\ mailbox' = [mailbox EXCEPT ![Acc] = @ \ Committed]
    /\ pop' = "closed"
    /\ marked' = {}
    /\ IF variant = "fn" /\ stillStarted(data, Acc)
       THEN Record(Acc, "success", "null")
       ELSE UNCHANGED <<data, statsFile>>
    /\ retained' = [retained EXCEPT ![Acc] = Unconfirmed]
    /\ NextAccount("returned")
    /\ UNCHANGED <<clock, op, variant, faults, shuttingDown, cycle, i, count,
                   session, labels, pending, doomed, ensured, apiUse, authVars>>

\* after the for loop: fn writes the credentials back when they hold both
\* tokens; then the shutdown check and the sleep
AfterAccounts ==
    /\ pc = "after"
    /\ tokenFile' = IF variant = "fn" /\ creds.refresh # 0 /\ creds.access # 0
                    THEN creds ELSE tokenFile
    /\ pc' = IF shuttingDown THEN "exit0" ELSE "sleep"
    /\ UNCHANGED <<statsVars, op, variant, faults, shuttingDown, cycle, acct, i, count,
                   mailVars, histVars, apiUse, issued, withRt, creds, expiry_date, webVars>>

\* the sleep ends: the interval has passed, or shuttingDown was seen
Wake ==
    /\ pc = "sleep"
    /\ shuttingDown \/ cycle < MaxCycles
    /\ pc' = "loop"
    /\ UNCHANGED <<statsVars, op, variant, faults, shuttingDown, cycle, acct, i, count,
                   mailVars, histVars, apiUse, authVars>>

\* SIGINT or SIGTERM with the handlers of main() installed
Signal ==
    /\ pc \in Awaits
    /\ ~(variant = "fn" /\ pc \in {"refresh", "await_cb"})
    /\ ~shuttingDown
    /\ shuttingDown' = TRUE
    /\ UNCHANGED <<statsVars, op, variant, faults, pc, cycle, acct, i, count,
                   mailVars, histVars, apiUse, authVars>>

\* cls: a pending import request is answered.  Nothing waits for the answer;
\* a rejection is an unhandled rejection, which ends the process or is only
\* reported, depending on the Node.js version
ImportAnswered ==
    /\ variant = "cls"
    /\ pc \in Awaits
    /\ pending > 0
    /\ pending' = pending - 1
    /\ \/ /\ doomed < pending
          /\ UNCHANGED <<doomed, pc>>
       \/ /\ doomed > 0
          /\ doomed' = doomed - 1
          /\ \E crash \in BOOLEAN : pc' = IF crash THEN "exit1" ELSE pc
    /\ UNCHANGED <<statsVars, op, variant, faults, shuttingDown, cycle, acct, i, count,
                   mailbox, pop, session, marked, labels, histVars, apiUse, authVars>>

(***************************************************************************)
(* The OAuth web flow: the waiter, the callback request, the code exchange *)
(***************************************************************************)
\* fn: getOauthClient without a token file calls authenticate, which builds
\* the authorization URL, registers the waiter and waits for its promise
GetOauthClientWeb ==
    /\ variant = "fn"
    /\ pc = "start"
    /\ tokenFile = NoToken
    /\ gen' = 1
    /\ authorizeUrl' = 1
    /\ authWaiters' = set(authWaiters, CallbackPath, 1)
    /\ pc' = "await_cb"
    /\ UNCHANGED <<statsVars, op, variant, faults, shuttingDown, cycle, acct, i, count,
                   mailVars, histVars, apiUse, credVars, settled, awaitingAuth,
                   exchanges, invoked, requests, resp>>

\* waiter.resolve / waiter.reject: the call is counted; only the first call
\* on a promise settles it
Settle(g) ==
    /\ invoked' = [invoked EXCEPT ![g] = @ + 1]
    /\ settled' = settled \cup {g}

\* fn: the request handler of the status server, one request from start to
\* end.  form is the shape of the request target: origin-form
\* ("/path?query") or absolute-form ("http://host/path?query"); q is what
\* the query carries
HttpRequestFn(path, form, q, host) ==
    /\ variant = "fn"
    /\ pc \in Awaits
    /\ ~shuttingDown
    /\ requests < MaxRequests
    /\ requests' = requests + 1
    /\ IF form = "origin"
       THEN \* new URL(req.url) throws on a relative target: the catch answers 500
            /\ resp' = [Request(path, q) EXCEPT !.code = 500]
            /\ UNCHANGED <<pc, authWaiters, settled, authorizeUrl, exchanges, invoked>>
       ELSE IF path \in DOMAIN authWaiters
       THEN LET g == authWaiters[path]
            IN  /\ authWaiters' = <<>>
                /\ authorizeUrl' = 0
                /\ IF q = "error"
                   THEN \* the rejection reaches main().catch: process.exit(1)
                        /\ resp' = [Request(path, q) EXCEPT !.code = 400, !.waiter = g]
                        /\ Settle(g)
                        /\ pc' = "exit1"
                        /\ UNCHANGED exchanges
                   ELSE /\ resp' = [Request(path, q) EXCEPT !.code = 200, !.waiter = g,
                                                            !.exchange = TRUE]
                        /\ exchanges' = Append(exchanges, [client |-> g, code |-> q])
                        /\ UNCHANGED <<pc, settled, invoked>>
       ELSE IF path = "/status"
       THEN LET newurl == IF authorizeUrl # 0
                          THEN modifyOAuthUrl(host, generateAuthUrl(ConfiguredRedirect, <<>>))
                          ELSE NoUrl
            IN  resp' = [Request(path, q) EXCEPT !.code = 200,
                                                 !.link = authorizeUrl # 0,
                                                 !.host = IF newurl # NoUrl THEN host ELSE "none",
                                                 !.url = newurl,
                                                 !.attempt = IF newurl # NoUrl THEN gen ELSE 0]
            /\ UNCHANGED <<pc, authWaiters, settled, authorizeUrl, exchanges, invoked>>
       ELSE /\ resp' = [Request(path, q) EXCEPT !.code = 404]
            /\ UNCHANGED <<pc, authWaiters, settled, authorizeUrl, exchanges, invoked>>
    /\ UNCHANGED <<statsVars, op, variant, faults, shuttingDown, cycle, acct, i, count,
                   mailVars, histVars, apiUse, credVars, gen, awaitingAuth>>

\* cls: the request handler; the target is parsed against a base, the waiter
\* is looked up and left in place; a rejection runs the promise chain of the
\* constructor: catch logs, finally clears awaitingAuth
HttpRequestCls(path, q, host) ==
    /\ variant = "cls"
    /\ pc \in Awaits
    /\ ~shuttingDown
    /\ requests < MaxRequests
    /\ requests' = requests + 1
    /\ IF path \in DOMAIN authWaiters
       THEN LET g == authWaiters[path]
            IN  IF q = "error"
                THEN /\ resp' = [Request(path, q) EXCEPT !.code = 400, !.waiter = g]
                     /\ Settle(g)
                     /\ awaitingAuth' = IF g \in settled THEN awaitingAuth ELSE FALSE
                     /\ UNCHANGED exchanges
                ELSE /\ resp' = [Request(path, q) EXCEPT !.code = 200, !.waiter = g,
                                                         !.exchange = TRUE]
                     /\ exchanges' = Append(exchanges, [client |-> g, code |-> q])
                     /\ UNCHANGED <<settled, awaitingAuth, invoked>>
       ELSE IF path = "/status"
       THEN LET newurl == getAuthorizeUrl(redirectUri(host), redirectParam(host))
            IN  resp' = [Request(path, q) EXCEPT !.code = 200,
                                                 !.link = newurl # NoUrl,
                                                 !.host = IF newurl # NoUrl THEN host ELSE "none",
                                                 !.url = newurl,
                                                 !.attempt = IF newurl # NoUrl THEN gen ELSE 0]
            /\ UNCHANGED <<settled, awaitingAuth, exchanges, invoked>>
       ELSE /\ resp' = [Request(path, q) EXCEPT !.code = 404]
            /\ UNCHANGED <<settled, awaitingAuth, exchanges, invoked>>
    /\ UNCHANGED <<statsVars, op, variant, faults, pc, shuttingDown, cycle, acct, i, count,
                   mailVars, histVars, apiUse, credVars, gen, authWaiters, authorizeUrl>>

Remove(seq, k) == [j \in 1..(Len(seq) - 1) |-> IF j < k THEN seq[j] ELSE seq[j + 1]]

\* fn: oauth2Client.getToken(code) answers.  With tokens: setCredentials,
\* resolve; getOauthClient resumes, writes the credentials to the token file
\* and main() goes on to its loop.  With an error: reject, which reaches
\* main().catch
GetTokenAnsweredFn(k) ==
    /\ variant = "fn"
    /\ pc \in Awaits
    /\ k \in 1..Len(exchanges)
    /\ exchanges' = Remove(exchanges, k)
    /\ Settle(exchanges[k].client)
    /\ \/ /\ exchanges[k].code = "code"
          /\ issued < MaxTokens
          /\ issued' = issued + 1
          /\ \E rt \in BOOLEAN :
                /\ creds' = Token(issued + 1, IF rt THEN issued + 1 ELSE 0)
                /\ withRt' = IF rt THEN withRt \cup {issued + 1} ELSE withRt
          /\ tokenFile' = creds'
          /\ pc' = "loop"
       \/ /\ pc' = "exit1"
          /\ UNCHANGED <<tokenFile, issued, withRt, creds>>
    /\ UNCHANGED <<statsVars, op, variant, faults, shuttingDown, cycle, acct, i, count,
                   mailVars, histVars, apiUse, expiry_date, gen, authWaiters, awaitingAuth,
                   authorizeUrl, requests, resp>>

\* cls: finishAuthWaiter's getToken answers.  With tokens: the "tokens"
\* listener writes the token file when the answer carries a refresh token,
\* resolve runs setCredentials on the waiter's client and the finally clears
\* awaitingAuth.  With an error: reject, which the catch of the chain logs
GetTokenAnsweredCls(k) ==
    /\ variant = "cls"
    /\ pc \in Awaits
    /\ k \in 1..Len(exchanges)
    /\ exchanges' = Remove(exchanges, k)
    /\ LET g == exchanges[k].client
       IN  /\ Settle(g)
           /\ awaitingAuth' = IF g \in settled THEN awaitingAuth ELSE FALSE
           /\ \/ /\ exchanges[k].code = "code"
                 /\ issued < MaxTokens
                 /\ issued' = issued + 1
                 /\ \E rt \in BOOLEAN :
                       LET tokens == Token(issued + 1, IF rt THEN issued + 1 ELSE 0)
                       IN  /\ withRt' = IF rt THEN withRt \cup {issued + 1} ELSE withRt
                           /\ tokenFile' = IF rt THEN tokens ELSE tokenFile
                           /\ creds' = IF g \notin settled /\ g = gen
                                       THEN tokens ELSE creds
              \/ UNCHANGED <<tokenFile, issued, withRt, creds>>
    /\ UNCHANGED <<statsVars, op, variant, faults, pc, shuttingDown, cycle, acct, i, count,
                   mailVars, histVars, apiUse, expiry_date, gen, authWaiters, authorizeUrl,
                   requests, resp>>

\* the access token has expired when a Gmail API request is about to be
\* sent: the library refreshes the credentials first.  cls has a "tokens"
\* listener that writes an answer carrying a refresh token to the file
AutoRefresh ==
    /\ pc \in {"label_list", "label_create", "import"}
    /\ creds.refresh # 0
    /\ issued < MaxTokens
    /\ issued' = issued + 1
    /\ \E rotated \in BOOLEAN :
          /\ creds' = Token(issued + 1, IF rotated THEN issued + 1 ELSE creds.refresh)
          /\ withRt' = IF rotated THEN withRt \cup {issued + 1} ELSE withRt
          /\ tokenFile' = IF variant = "cls" /\ rotated
                          THEN Token(issued + 1, issued + 1) ELSE tokenFile
    /\ UNCHANGED <<statsVars, op, variant, faults, loopVars, mailVars, histVars, apiUse,
                   expiry_date, webVars>>

\* fn: a termination signal before main() has installed its handlers
SignalBeforeHandlers ==
    /\ variant = "fn"
    /\ pc \in {"refresh", "await_cb"}
    /\ pc' = "killed"
    /\ UNCHANGED <<statsVars, op, variant, faults, shuttingDown, cycle, acct, i, count,
                   mailVars, histVars, apiUse, authVars>>

(***************************************************************************)
(* The synchronisation engine with a token file in place                   *)
(***************************************************************************)
InitProcess(files, boxes) ==
    /\ InitStore
    /\ variant \in Variants
    /\ faults = 0
    /\ pc = IF variant = "fn" THEN "start" ELSE "loop"
    /\ shuttingDown = FALSE
    /\ cycle = 0
    /\ acct = 0
    /\ i = 0
    /\ count = 0
    /\ mailbox \in boxes
    /\ pop = "closed"
    /\ session = <<>>
    /\ marked = {}
    /\ labels = <<>>
    /\ pending = 0
    /\ doomed = 0
    /\ h = NoPass
    /\ retained = [a \in Accounts |-> {}]
    /\ ensured = [a \in Accounts |-> <<>>]
    /\ passes = <<>>
    /\ tokenFile \in files
    /\ issued = tokenFile.access
    /\ withRt = IF tokenFile.refresh # 0 THEN {tokenFile.access} ELSE {}
    /\ creds = NoToken
    /\ expiry_date = "none"
    /\ apiUse = NoUse
    /\ InitWeb

InitSync ==
    InitProcess({Token(1, 1)},
                {[a \in Accounts |-> IF a = AccountOrder[1] THEN 1..n ELSE 1..k] :
                     n \in 0..MaxMsgs, k \in 0..1})

NextSync ==
    \/ GetOauthClientLoad
    \/ GetOauthClientRefreshed
    \/ LoopExit
    \/ LoopFn
    \/ LoopCls
    \/ AuthenticateOk
    \/ AuthenticateFail
    \/ ForDone
    \/ ProcessAccountStart
    \/ LabelList
    \/ LabelCreate
    \/ PopConnect
    \/ PopStat
    \/ MsgNext
    \/ MsgDone
    \/ PopRetrFn
    \/ PopRetrCls
    \/ ImportDone
    \/ PopDele
    \/ PopQuit
    \/ AfterAccounts
    \/ Wake
    \/ Signal
    \/ ImportAnswered

SpecSync == InitSync /\ [][NextSync]_vars

(***************************************************************************)
(* The service with its web flow, started with or without a token file;    *)
(* the mailboxes are empty, so the steps of the message loop never apply   *)
(***************************************************************************)
InitAuth ==
    InitProcess({NoToken, Token(1, 1)}, {[a \in Accounts |-> {}]})

NextAuth ==
    \/ GetOauthClientLoad
    \/ GetOauthClientRefreshed
    \/ LoopExit
    \/ LoopFn
    \/ LoopCls
    \/ AuthenticateOk
    \/ AuthenticateFail
    \/ ForDone
    \/ ProcessAccountStart
    \/ LabelList
    \/ LabelCreate
    \/ PopConnect
    \/ PopStat
    \/ MsgDone
    \/ PopQuit
    \/ AfterAccounts
    \/ Wake
    \/ Signal
    \/ GetOauthClientWeb
    \/ \E path \in Paths, form \in Forms, q \in Queries, host \in Hosts :
          HttpRequestFn(path, form, q, host)
    \/ \E path \in Paths, q \in Queries, host \in Hosts : HttpRequestCls(path, q, host)
    \/ \E k \in 1..MaxRequests : GetTokenAnsweredFn(k)
    \/ \E k \in 1..MaxRequests : GetTokenAnsweredCls(k)
    \/ AutoRefresh
    \/ SignalBeforeHandlers

SpecAuth == InitAuth /\ [][NextAuth]_vars

(***************************************************************************)
(* The run of main() up to its end: every request that is in flight is     *)
(* answered and every timer fires, while signals may come at any await.    *)
(* The first mailbox holds at most one message; nobody visits the status   *)
(* page                                                                    *)
(***************************************************************************)
InitLive ==
    InitProcess({NoToken, Token(1, 1)},
                {[a \in Accounts |-> IF a = AccountOrder[1] THEN 1..n ELSE {}] :
                     n \in 0..1})

\* the steps main() takes by itself or when a request it awaits is answered
MainStep ==
    \/ GetOauthClientLoad
    \/ GetOauthClientRefreshed
    \/ LoopExit
    \/ LoopFn
    \/ LoopCls
    \/ AuthenticateOk
    \/ AuthenticateFail
    \/ ForDone
    \/ ProcessAccountStart
    \/ LabelList
    \/ LabelCreate
    \/ PopConnect
    \/ PopStat
    \/ MsgNext
    \/ MsgDone
    \/ PopRetrFn
    \/ PopRetrCls
    \/ ImportDone
    \/ PopDele
    \/ PopQuit
    \/ AfterAccounts
    \/ Wake

NextLive ==
    \/ MainStep
    \/ ImportAnswered
    \/ GetOauthClientWeb
    \/ Signal
    \/ SignalBeforeHandlers

SpecLive ==
    /\ InitLive
    /\ [][NextLive]_vars
    /\ WF_vars(MainStep)
    /\ WF_vars(ImportAnswered)

(***************************************************************************)
(* The store driven directly: any sequence of calls at any instants        *)
(***************************************************************************)
Tick ==
    /\ clock < MaxTick
    /\ clock' = clock + 1
    /\ op' = NoOp
    /\ UNCHANGED <<data, statsFile, sysVars>>

\* this._data when a writer returns: saveRaw catches the failure of
\* writeFileSync and restores nothing
afterSaveBroken(before, after, written) == IF written THEN after ELSE before
afterSave(before, after, written) == after

\* the timestamps recordImport is called with
Stamps == {NoTs, 0, Timeline[1]}

CallRecordImport(a) ==
    \E ts \in Stamps :
        /\ Len(ImportsOf(data, a)) < MaxLog
        /\ saveRaw(recordImport(data, a, ts, Now))
        /\ data' = afterSave(data, recordImport(data, a, ts, Now), statsFile')
        /\ op' = [NoOp EXCEPT !.name = "recordImport", !.account = a,
                                !.stale = Stale(data, a, Now)]
        /\ UNCHANGED <<clock, sysVars>>

CallRecordSyncStatus(a) ==
    \E status \in Statuses, message \in Messages :
        /\ message = "error" => status = "fail"
        /\ saveRaw(recordSyncStatus(data, a, status, message, Now))
        /\ data' = afterSave(data, recordSyncStatus(data, a, status, message, Now),
                             statsFile')
        /\ op' = [NoOp EXCEPT !.name = "recordSyncStatus", !.account = a]
        /\ UNCHANGED <<clock, sysVars>>

\* the store after getAccountStats(accountName): the record is looked up with
\* `this._data.accounts[accountName] || {...}`, which creates nothing
lookedUpBroken(d, accountName) == _ensureAccount(d, accountName)
lookedUp(d, accountName) == d

\* the store after getAllStats(): one getAccountStats per stored name
RECURSIVE allLookedUp(_, _)
allLookedUp(d, names) ==
    IF names = {} THEN d
    ELSE LET name == CHOOSE n \in names : TRUE
         IN  allLookedUp(lookedUp(d, name), names \ {name})

CallGetAccountStats(a) ==
    /\ op' = [name |-> "getAccountStats", account |-> a,
              counts |-> getAccountStats(data, a, Now).counts,
              stale |-> Stale(data, a, Now)]
    /\ data' = lookedUp(data, a)
    /\ UNCHANGED <<clock, statsFile, sysVars>>

CallGetAllStats ==
    /\ op' = [NoOp EXCEPT !.name = "getAllStats"]
    /\ data' = allLookedUp(data, DOMAIN data.accounts)
    /\ UNCHANGED <<clock, statsFile, sysVars>>

\* new StatsStore(statsFile) on a missing file
InitStats ==
    /\ InitStore
    /\ InitIdle

NextStats ==
    \/ Tick
    \/ \E a \in Accounts : CallRecordImport(a)
    \/ \E a \in {"A"} : CallRecordSyncStatus(a)
    \/ \E a \in Accounts : CallGetAccountStats(a)
    \/ CallGetAllStats

SpecStats == InitStats /\ [][NextStats]_vars

(***************************************************************************)
(* Claims about processAccount                                             *)
(***************************************************************************)
\* importMessage has returned for index k of the pass
Submitted(k) == h.res[k] \in {"id", "noid", "throw", "undef"}

\* the step in which popQuit answers and processAccount returns
QuitStep == pc = "quit" /\ pc' = "acct"

LastSyncAfter(a) == getAccountStats(data', a, Now).last_sync.status

\* C1: in a pass over an account, a DELE is issued for message index k if and
\* only if the importMessage call made for k in that pass returned a result
\* with an id; a call that threw or returned no id is followed by no DELE.
C1_DeleteIffId ==
    \A k \in 1..MaxMsgs : (h.dele[k] # "none") <=> (h.res[k] = "id")

\* a pass in which one message was imported with an id and its DELE was sent,
\* and another was submitted without an id and kept
C1_Witness ==
    \E j, k \in 1..MaxMsgs :
        /\ h.res[j] = "id"
        /\ h.dele[j] # "none"
        /\ h.res[k] \in {"noid", "throw"}
        /\ h.dele[k] = "none"

C7_HappyPath ==
    [][(/\ QuitStep
        /\ count = 3
        /\ \A k \in 1..3 : h.api[k] = "id" /\ h.dele[k] # "fail")
       => /\ \A k \in 1..3 : h.dele[k] = "ok"
          /\ h.recorded = 3
          /\ LastSyncAfter(Acc) = "success"
          /\ getAccountStats(data', Acc, Now).counts.day = h.day0 + 3]_vars

\* cls: three imports were answered with an id and the pass ended with no
\* DELE and no import recorded
C7_Witness ==
    /\ variant = "cls"
    /\ h.end = "returned"
    /\ \A k \in 1..3 : h.api[k] = "id" /\ h.dele[k] = "none"
    /\ h.recorded = 0

\* C8: a pass over an account with 2 messages, where the import of message 1
\* throws and the import of message 2 is answered with an id, issues no DELE
\* for 1 and a DELE for 2, records exactly 1 import and ends with
\* last_sync.status = 'success'.
C8_PartialFailure ==
    [][(/\ QuitStep
        /\ count = 2
        /\ h.api[1] = "throw"
        /\ h.api[2] = "id"
        /\ h.dele[2] # "fail")
       => /\ h.dele[1] = "none"
          /\ h.dele[2] = "ok"
          /\ h.recorded = 1
          /\ LastSyncAfter(Acc) = "success"]_vars

\* cls: the import of message 2 was answered with an id and the pass ended
\* without a DELE for it
C8_Witness ==
    /\ variant = "cls"
    /\ h.end = "returned"
    /\ h.api[1] = "throw"
    /\ h.api[2] = "id"
    /\ h.api[3] = "none"
    /\ h.dele[2] = "none"
    /\ h.recorded = 0

(***************************************************************************)
(* Claims about the main loop and the passes over the accounts             *)
(***************************************************************************)
LastSync(a) == getAccountStats(data, a, Now).last_sync

Starts == {k \in 1..Len(passes) : passes[k].ev = "start"}

\* main() is inside processAccount, between its call and its return or throw
InPass == {"label_list", "label_create", "connect", "stat", "msg", "retr",
           "import", "dele", "quit"}
\* processAccount is inside its loop over the messages
InLoop == {"msg", "retr", "import", "dele"}

\* a request of the pass has failed
Failed(p) ==
    \/ p.end = "threw"
    \/ p.fails # {}
    \/ \E k \in 1..MaxMsgs :
           p.res[k] \in {"nofetch", "throw"} \/ p.api[k] = "throw" \/ p.dele[k] = "fail"

\* C11: two successive getOrCreateLabel calls for the same name that return
\* give the same label id, the second finds the label by name, and together
\* they send at most one labels.create request.
C11_LabelIdempotent ==
    \A a \in Accounts :
        \A k \in 1..(Len(ensured[a]) - 1) :
            /\ ensured[a][k + 1].id = ensured[a][k].id
            /\ ensured[a][k + 1].creates = 0
            /\ ensured[a][k].creates + ensured[a][k + 1].creates <= 1

\* the first call created the label and a second call has returned
C11_Witness ==
    \E a \in Accounts :
        /\ Len(ensured[a]) >= 2
        /\ ensured[a][1].creates = 1
        /\ ensured[a][2].id = ensured[a][1].id

\* C12: every processAccount call starts after the call before it has ended
\* (at most one account is inside processAccount, and a mailbox session is
\* open only for that account), the calls of one cycle start in the order
\* of cfg.accounts, and the calls of a later cycle start after those of the
\* earlier cycles have ended.
C12_Sequential ==
    /\ \A k \in 1..Len(passes) :
           IF passes[k].ev = "start"
           THEN k = 1 \/ passes[k - 1].ev = "end"
           ELSE k > 1 /\ passes[k - 1] = [passes[k] EXCEPT !.ev = "start"]
    /\ \A j, k \in Starts :
           j < k => \/ passes[j].cycle < passes[k].cycle
                    \/ /\ passes[j].cycle = passes[k].cycle
                       /\ passes[j].acct < passes[k].acct
    /\ pop = "open" =>
           /\ passes # <<>>
           /\ passes[Len(passes)] = [cycle |-> cycle, acct |-> acct, ev |-> "start"]

\* both accounts were processed in the first cycle and the first account is
\* being processed in the second, with its mailbox session open
C12_Witness ==
    /\ Len(passes) = 5
    /\ passes[5] = [cycle |-> 2, acct |-> 1, ev |-> "start"]
    /\ passes[3] = [cycle |-> 1, acct |-> 2, ev |-> "start"]
    /\ pop = "open"

\* C13: when a request of an account's pass has failed and no shutdown is
\* requested, main() leaves the pass only to go on with the next account
\* of cfg.accounts in the same cycle, and that account is started.
C13_FailureIsolated ==
    /\ [][(pc \in InPass /\ pc' \notin InPass /\ Failed(h') /\ ~shuttingDown)
          => /\ pc' = "acct"
             /\ acct' = acct + 1
             /\ cycle' = cycle]_vars
    /\ [][(pc = "acct" /\ pc' # pc /\ acct <= Len(AccountOrder) /\ ~shuttingDown)
          => /\ pc' = "label_list"
             /\ h'.account = AccountOrder[acct]]_vars

\* cls: an import of the first account was rejected and the process has
\* ended before the second account was started
C13_Witness ==
    /\ variant = "cls"
    /\ pc = "exit1"
    /\ ~shuttingDown
    /\ h.account = AccountOrder[1]
    /\ Failed(h)
    /\ \A k \in Starts : passes[k].acct = 1

\* C14: when the fetch, the import or the DELE of message i fails, the loop
\* goes on with i + 1; with no shutdown requested every index up to the
\* count is fetched, and the loop is left only past the last index.
C14_MessageFailureIsolated ==
    /\ [][(pc \in {"retr", "import", "dele"} /\ pc' # pc /\ ~shuttingDown
              /\ (h'.res[i] \in {"nofetch", "throw"} \/ h'.dele[i] = "fail"))
          => pc' = "msg" /\ i' = i + 1]_vars
    /\ [][(pc = "msg" /\ pc' # pc /\ i <= count /\ ~shuttingDown)
          => pc' = "retr" /\ i' = i]_vars
    /\ [][(pc \in InLoop /\ pc' \notin InLoop /\ Failed(h) /\ ~shuttingDown)
          => /\ pc' = "quit"
             /\ i' > count'
             /\ \A k \in 1..count : h'.res[k] # "none"]_vars

\* cls: the import of a message was rejected and the process has ended
\* with messages of the pass not fetched
C14_Witness ==
    /\ variant = "cls"
    /\ pc = "exit1"
    /\ ~shuttingDown
    /\ \E k \in 1..count : h.api[k] = "throw"
    /\ \E k \in 1..count : h.res[k] = "none"

\* C15: once shuttingDown is set, no processAccount call starts, no cycle
\* starts, no further message is fetched, and the sleep and the while loop
\* are left for nothing but the end of the process.
C15_NoNewWork ==
    [][shuttingDown =>
          /\ Len(passes') > Len(passes) => passes'[Len(passes')].ev = "end"
          /\ cycle' = cycle
          /\ gen' = gen
          /\ ~(pc = "msg" /\ pc' = "retr")
          /\ (pc = "sleep" /\ pc' # pc) => pc' \in {"loop"} \cup Exited
          /\ (pc = "loop" /\ pc' # pc) => pc' \in Exited]_vars

\* the signal came during the pass over the first account: the pass has
\* ended, the second account was not started and the process has exited
C15_Witness ==
    /\ shuttingDown
    /\ pc = "exit0"
    /\ cycle = 1
    /\ Len(passes) = 2
    /\ passes[2] = [cycle |-> 1, acct |-> 1, ev |-> "end"]

\* C16: once a termination signal has been delivered, the process ends
\* with exit code 0, provided every request in flight is answered.
C16_ExitsZero == (shuttingDown \/ pc = "killed") ~> (pc = "exit0")

\* fn: the signal came while getOauthClient was waiting for the callback,
\* before main() had installed its handlers
C16_Witness ==
    /\ variant = "fn"
    /\ pc = "killed"
    /\ authorizeUrl # 0
    /\ ~shuttingDown

\* C17: when processAccount has returned or thrown, the last_sync.status of
\* its account is 'success' or 'fail', not 'started'.
C17_StartedOverwritten ==
    h.end \in {"returned", "threw"} =>
        LastSync(h.account).status \in {"success", "fail"}

\* getOrCreateLabel threw and last_sync.status is left at 'started'
C17_Witness ==
    /\ h.end = "threw"
    /\ LastSync(h.account).status = "started"
    /\ pc = "sleep"

\* C18: when popConnect fails, 'fail' is recorded with the error message and
\* processAccount returns: the pass sends no STAT, RETR, import or DELE,
\* and no 'success' is recorded for it.
C18_ConnectFailureAborts ==
    /\ [][(pc = "connect" /\ faults' > faults)
          => /\ getAccountStats(data', Acc, Now).last_sync.status = "fail"
             /\ getAccountStats(data', Acc, Now).last_sync.message = "error"
             /\ pc' = "acct"
             /\ pop' = "closed"]_vars
    /\ []("connect" \in h.fails =>
             /\ h.fails = {"connect"}
             /\ h.end = "returned"
             /\ i = 0
             /\ count = 0
             /\ h.api = Slots /\ h.res = Slots /\ h.dele = Slots
             /\ h.recorded = 0
             /\ LastSync(h.account).status = "fail"
             /\ LastSync(h.account).message = "error")

\* the connection to the second account failed after the first account was
\* processed, and the cycle has ended
C18_Witness ==
    /\ "connect" \in h.fails
    /\ h.account = AccountOrder[2]
    /\ pc = "sleep"
    /\ LastSync(h.account).status = "fail"

\* C19: 'success' is recorded for an account only in a pass in which no
\* 'fail' was recorded, and a pass that recorded 'fail' ends with
\* last_sync.status = 'fail'.
C19_FailStands ==
    /\ [][\A a \in Accounts :
             (getAccountStats(data', a, Now).last_sync.status = "success"
                 /\ LastSync(a).status # "success")
             => h.account = a /\ h.fails = {}]_vars
    /\ []((h.end = "returned" /\ h.fails # {}) =>
             LastSync(h.account).status = "fail")

\* STAT failed, the session was closed with QUIT and the status is 'fail'
C19_Witness ==
    /\ h.end = "returned"
    /\ h.fails = {"stat"}
    /\ LastSync(h.account).status = "fail"

\* C20: the import log of an account grows by one record in the step in
\* which a DELE of that account is acknowledged, and in no other step; a
\* DELE that fails adds no record.
C20_RecordIffDeleted ==
    /\ [][\A a \in Accounts :
             Len(ImportsOf(data', a)) =
                 Len(ImportsOf(data, a)) +
                 (IF pc = "dele" /\ Acc = a /\ h'.dele[i] = "ok" THEN 1 ELSE 0)]_vars
    /\ [](h.recorded = Cardinality({k \in 1..MaxMsgs : h.dele[k] = "ok"}))

\* a pass in which one DELE was acknowledged and recorded and another failed
C20_Witness ==
    /\ \E j, k \in 1..MaxMsgs : h.dele[j] = "ok" /\ h.dele[k] = "fail"
    /\ h.recorded = 1
    /\ Len(ImportsOf(data, h.account)) = 1

(***************************************************************************)
(* Claims about the authorization flow                                     *)
(***************************************************************************)
\* the server answers a request
RequestStep == requests' = requests + 1

\* a getToken call answers: with tokens, or with an error
ExchangeOkStep == Len(exchanges') < Len(exchanges) /\ issued' = issued + 1
ExchangeFailStep == Len(exchanges') < Len(exchanges) /\ issued' = issued

\* a callback request has been handed the waiter of client g
Consumed(g) ==
    \/ invoked[g] > 0
    \/ \E k \in 1..Len(exchanges) : exchanges[k].client = g

\* the waiter registered last is unsettled and the status page offers the link
Pending ==
    /\ CallbackPath \in DOMAIN authWaiters
    /\ authWaiters[CallbackPath] = gen
    /\ gen \notin settled
    /\ IF variant = "fn" THEN authorizeUrl # 0 ELSE awaitingAuth

\* C3: once a callback request has consumed the pending authorization, a
\* further request to the callback path finds no waiter, is not answered as
\* a callback (neither 200 nor 400, where the claim says 404), starts no
\* code exchange and calls neither resolve nor reject.
C3_ExactlyOnce ==
    [][(RequestStep /\ resp'.path = CallbackPath /\ gen > 0 /\ Consumed(gen))
       => /\ resp'.waiter = 0
          /\ resp'.code \notin {200, 400}
          /\ exchanges' = exchanges
          /\ invoked' = invoked]_vars

\* cls: the continuations of one waiter have been called twice
C3_Witness ==
    /\ variant = "cls"
    /\ \E g \in Clients : invoked[g] >= 2

\* C4: with no token file, asking for the client leaves a waiter registered
\* and the authorization URL on offer; a callback request that carries a
\* valid code while the waiter is registered is accepted and its code is
\* exchanged; when the exchange answers with a refresh token the waiter is
\* resolved, the client holds the tokens and the token file holds that
\* refresh token.
C4_RoundTrip ==
    /\ [][(tokenFile = NoToken /\ pc \in {"start", "loop"} /\ pc' \in {"await_cb", "after"})
          => Pending']_vars
    /\ [][(RequestStep /\ resp'.path = CallbackPath /\ resp'.query = "code"
              /\ CallbackPath \in DOMAIN authWaiters)
          => /\ resp'.code = 200
             /\ resp'.waiter = authWaiters[CallbackPath]
             /\ resp'.exchange]_vars
    /\ [][(ExchangeOkStep /\ (issued + 1) \in withRt')
          => /\ invoked' # invoked
             /\ tokenFile'.refresh = issued + 1
             /\ (variant = "fn" => creds' = Token(issued + 1, issued + 1) /\ pc' = "loop")
             /\ (variant = "cls" =>
                    \A g \in Clients :
                        invoked'[g] # invoked[g] /\ g \notin settled => ~awaitingAuth')]_vars

\* fn: the callback request with a valid code was answered 500 and the
\* waiter is still waiting
C4_Witness ==
    /\ variant = "fn"
    /\ pc = "await_cb"
    /\ resp.path = CallbackPath
    /\ resp.query = "code"
    /\ resp.code = 500
    /\ Pending

\* C5: a Gmail API request is never sent with a token that came with a
\* refresh token and has not been written to the token file.
C5_SavedBeforeUse == apiUse.saved

\* the running client's token came with a refresh token that the token file
\* does not hold, and a Gmail API request has been sent with it
C5_Witness ==
    /\ apiUse.access = creds.access
    /\ creds.access \in withRt
    /\ tokenFile.refresh < creds.access
    /\ ~apiUse.saved

\* C6: an error reported on the callback, or a failed code exchange, does not
\* end the process; a cycle that starts without authorization processes no
\* account and leaves a fresh authorization pending.
C6_AuthErrorSurvived ==
    /\ [][((RequestStep /\ resp'.code = 400) \/ ExchangeFailStep)
          => pc' \notin Exited]_vars
    /\ [][(cycle' = cycle + 1 /\ variant = "cls" /\ tokenFile.refresh = 0)
          => pc' = "after" /\ Pending']_vars

\* fn: the callback reported an error and the process has exited with code 1
C6_Witness ==
    /\ variant = "fn"
    /\ resp.code = 400
    /\ pc = "exit1"

(***************************************************************************)
(* Claims about the statistics store                                       *)
(***************************************************************************)
Ordered(c) ==
    /\ c.day <= c.week
    /\ c.week <= c.month
    /\ c.month <= c.year
    /\ c.year <= c.total

\* C9: after any sequence of recordImport and recordSyncStatus calls, every
\* stats read of every account (getAccountStats, and the same record inside
\* getAllStats) has day <= week <= month <= year <= total.
C9_CountsMonotone ==
    /\ \A a \in Accounts : Ordered(getAccountStats(data, a, Now).counts)
    /\ \A a \in DOMAIN data.accounts :
           Ordered(getAllStats(data, Now).accounts[a].counts)
    /\ op.name = "getAccountStats" => Ordered(op.counts)

\* a read that tells the windows apart: one entry of today, one older than a year
C9_Witness ==
    /\ op.name = "getAccountStats"
    /\ op.counts.day = 1
    /\ op.counts.year = 1
    /\ op.counts.total = 2

\* C10: an entry older than 400 days is counted in the account's total up to
\* the next recordImport call on that account; when that call returns, the
\* log holds no entry older than now - 400 days, so total no longer counts it.
C10_RetentionPruning ==
    [][\A a \in Accounts :
          (op'.name = "recordImport" /\ op'.account = a) =>
              LET before == ImportsOf(data, a)
                  after == ImportsOf(data', a)
                  cutoff == Now - RetentionDays * HoursPerDay
                  kept == CountSince(before, cutoff)
              IN  /\ getAccountStats(data, a, Now).counts.total = Len(before)
                  /\ Len(before) = kept + op'.stale
                  /\ \A k \in 1..Len(after) : after[k] >= cutoff
                  /\ getAccountStats(data', a, Now).counts.total \in {kept, kept + 1}
      ]_vars

\* a recordImport call that found an entry older than the horizon in the log
C10_Witness ==
    /\ op.name = "recordImport"
    /\ op.stale > 0
    /\ getAccountStats(data, op.account, Now).counts.total = 1

(***************************************************************************)
(* Claims about the order of the message operations                        *)
(***************************************************************************)
\* C21: the messages of a pass are handled in ascending order and one at a
\* time: when the fetch of a message is issued, every earlier message has
\* had its fetch, its delivery and its delete answered, no delivery is in
\* flight, and no later message has been touched.
C21_OneAtATime ==
    [][(pc = "msg" /\ pc' = "retr")
       => /\ pending = 0
          /\ \A k \in 1..count :
                /\ k < i => h.res[k] \notin {"none", "sent"} /\ h.dele[k] # "sent"
                /\ k >= i => h.res[k] = "none" /\ h.dele[k] = "none"]_vars

\* cls: the fetch of the second message is out while the import request of
\* the first has not been answered
C21_Witness ==
    /\ variant = "cls"
    /\ pc = "retr"
    /\ i = 2
    /\ h.api[1] # "none"
    /\ pending > 0

(***************************************************************************)
(* Claims about the reads of the statistics store                          *)
(***************************************************************************)
\* C30: a stats read changes nothing: when getAccountStats or getAllStats
\* returns, the stored data and the stats file are what they were before the
\* call, also when the account read has no record.
C30_ReadsPure ==
    [][(op'.name \in {"getAccountStats", "getAllStats"} /\ clock' = clock)
       => /\ data' = data
          /\ statsFile' = statsFile
          /\ \A a \in Accounts : ImportsOf(data', a) = ImportsOf(data, a)]_vars

\* a read of an account the store holds no record of, next to one it holds
C30_Witness ==
    /\ op.name = "getAccountStats"
    /\ op.account \notin DOMAIN data.accounts
    /\ DOMAIN data.accounts # {}

(***************************************************************************)
(* Claims about the authorization flow                                     *)
(***************************************************************************)
\* the registry holds the waiter of client g under the callback path
Registered(ws, g) == CallbackPath \in DOMAIN ws /\ ws[CallbackPath] = g

\* C22: a consumption that fails rejects the waiter and removes it.  A
\* callback request with an error parameter that is handed the waiter g is
\* answered 400 and starts no code exchange; a code exchange that fails
\* belongs to one waiter g; either way exactly one continuation of g is
\* called, it hands over no tokens (the credentials and the token file stay
\* as they were), and afterwards the registry does not hold g.
C22_FailedConsumption ==
    /\ [][(RequestStep /\ resp'.waiter # 0 /\ resp'.query = "error")
          => LET g == resp'.waiter
             IN  /\ resp'.code = 400
                 /\ ~resp'.exchange
                 /\ exchanges' = exchanges
                 /\ invoked' = [invoked EXCEPT ![g] = @ + 1]
                 /\ creds' = creds
                 /\ tokenFile' = tokenFile
                 /\ ~Registered(authWaiters', g)]_vars
    /\ [][ExchangeFailStep
          => \E g \in Clients :
                /\ invoked' = [invoked EXCEPT ![g] = @ + 1]
                /\ creds' = creds
                /\ tokenFile' = tokenFile
                /\ ~Registered(authWaiters', g)]_vars

\* cls: a callback request with an error parameter has been answered 400,
\* the waiter it rejected is still the one the registry holds
C22_Witness ==
    /\ variant = "cls"
    /\ resp.code = 400
    /\ resp.waiter # 0
    /\ invoked[resp.waiter] = 1
    /\ Registered(authWaiters, resp.waiter)

\* C23: when the token file holds a refresh token and the refresh fails,
\* the manager goes on to wait for the user's authorization: the step in
\* which the refresh fails ends with the link offered and the waiter
\* pending, and it does not hand the client out for the account loop.
C23_RefreshFailureAwaits ==
    [][(pc \in {"refresh", "auth"} /\ faults' = faults + 1)
       => /\ pc' \in {"await_cb", "after"}
          /\ Pending']_vars

\* fn: the refresh has failed and the first cycle runs its accounts with the
\* credentials of the token file, no waiter registered
C23_Witness ==
    /\ variant = "fn"
    /\ pc = "acct"
    /\ cycle = 1
    /\ faults = 1
    /\ authWaiters = <<>>
    /\ creds = tokenFile
    /\ creds.refresh # 0

\* C24: with a refresh token in the file, the client is refreshed before it
\* is handed out exactly when the access token has expired or expires
\* within 60 seconds, and a refresh that succeeds leaves the new access
\* token, with a refresh token, in the token file by the time the client is
\* handed out; a token that is not within 60 seconds of its expiry is used
\* as it is.
C24_RefreshOnExpiry ==
    /\ [][(pc = "start" /\ pc' \in {"refresh", "loop"} /\ tokenFile.refresh # 0)
          => (pc' = "refresh" <=> expiry_date' = "soon")]_vars
    /\ [][(pc = "auth" /\ pc' = "acct")
          => (issued' = issued + 1 <=> expiry_date = "soon")]_vars
    /\ [][(pc \in {"refresh", "auth"} /\ issued' = issued + 1)
          => /\ tokenFile'.access = issued'
             /\ tokenFile'.refresh # 0
             /\ creds'.access = issued']_vars
    /\ [][(pc \in {"refresh", "auth"} /\ expiry_date = "later" /\ pc' # pc)
          => /\ issued' = issued
             /\ tokenFile' = tokenFile]_vars

\* cls: the accounts are processed with a refreshed access token that the
\* token file does not hold
C24_Witness ==
    /\ variant = "cls"
    /\ pc = "acct"
    /\ cycle = 1
    /\ tokenFile.refresh # 0
    /\ creds.access = issued
    /\ tokenFile.access < issued

\* a step after which the cycle has no authorized token: a refresh that is
\* refused, or a cycle that starts without a refresh token in the file
Unauthorized ==
    \/ pc \in {"refresh", "auth"} /\ faults' = faults + 1
    \/ variant = "cls" /\ pc = "loop" /\ cycle' = cycle + 1 /\ tokenFile.refresh = 0

\* C25: a cycle without an authorized token processes no account: the step
\* that leaves the manager without one goes past the account loop (or to
\* the wait for the callback, or ends the process), and from there to the
\* next cycle no status is recorded, no POP3 session is opened and nothing
\* is delivered.
C25_NoTokenNoAccounts ==
    /\ [][Unauthorized => pc' \in {"after", "await_cb"} \cup Exited]_vars
    /\ [][(pc \in {"after", "sleep"})
          => /\ pc' \in {"after", "sleep", "loop"} \cup Exited
             /\ data' = data
             /\ passes' = passes
             /\ pop' = pop
             /\ pending' <= pending]_vars

\* fn: after a refused refresh the first account has been started and its
\* POP3 session is open
C25_Witness ==
    /\ variant = "fn"
    /\ cycle = 1
    /\ faults = 1
    /\ creds = tokenFile
    /\ pop = "open"
    /\ getAccountStats(data, AccountOrder[1], Now).last_sync.status = "started"

\* C26: the registry holds at most one waiter, and it is the one registered
\* last; a callback request is handed that waiter and no other and starts
\* the code exchange of no other; and whenever a continuation is called, it
\* is one of the waiter registered last, never one of a replaced waiter.
C26_OnePending ==
    /\ [](/\ Cardinality(DOMAIN authWaiters) <= 1
          /\ \A p \in DOMAIN authWaiters : p = CallbackPath /\ authWaiters[p] = gen)
    /\ [][(RequestStep /\ resp'.path = CallbackPath)
          => /\ resp'.waiter \in {0, gen}
             /\ \/ exchanges' = exchanges
                \/ exchanges' = Append(exchanges, [client |-> gen, code |-> resp'.query])]_vars
    /\ [][\A g \in Clients : invoked'[g] # invoked[g] => g = gen]_vars

\* cls: the second cycle has replaced the waiter of the first while its code
\* exchange was out; the answer has then called a continuation of the
\* replaced waiter, and the chain of that waiter has cleared awaitingAuth
C26_Witness ==
    /\ variant = "cls"
    /\ gen = 2
    /\ Registered(authWaiters, 2)
    /\ invoked[1] = 1
    /\ invoked[2] = 0
    /\ tokenFile = NoToken
    /\ ~awaitingAuth

\* the status page answered last and the one answered by this step both show
\* the link, and no new attempt has started after the consumption of the
\* one the earlier page belongs to
SamePending ==
    /\ RequestStep
    /\ resp.link
    /\ resp'.link
    /\ ~(resp'.attempt # resp.attempt /\ Consumed(resp.attempt))

AttemptPending ==
    /\ gen > 0
    /\ Registered(authWaiters, gen)
    /\ ~Consumed(gen)
    /\ IF variant = "fn"
       THEN pc = "await_cb"
       ELSE pc \in {"after", "sleep"} /\ tokenFile.refresh = 0

\* C28: a status page rendered while an attempt is pending shows the
\* authorization link, at any moment from the registration of the waiter to
\* its consumption, whatever happened to earlier waiters.
C28_LinkWhilePending ==
    [][(RequestStep /\ resp'.path = "/status" /\ resp'.code = 200 /\ AttemptPending)
       => resp'.link /\ resp'.url # NoUrl]_vars

\* cls: a status page without the link while the waiter of the second cycle
\* is pending and the token file is absent
C28_Witness ==
    /\ variant = "cls"
    /\ resp.path = "/status"
    /\ resp.code = 200
    /\ ~resp.link
    /\ gen = 2
    /\ AttemptPending
    /\ tokenFile = NoToken

\* C29: the wait for the callback does not block the server.  A request
\* that arrives while an attempt is pending is answered: a status request
\* with the page, a callback request that carries a code by handing it the
\* pending waiter and starting the code exchange; and the answer to that
\* exchange, when it brings tokens, takes the suspended worker out of its
\* wait.
C29_ServerNotBlocked ==
    /\ [][(RequestStep /\ AttemptPending /\ resp'.path = "/status")
          => resp'.code = 200]_vars
    /\ [][(RequestStep /\ AttemptPending /\ resp'.path = CallbackPath
              /\ resp'.query \in {"code", "badcode"})
          => /\ resp'.code = 200
             /\ resp'.waiter = gen
             /\ resp'.exchange
             /\ exchanges' = Append(exchanges, [client |-> gen, code |-> resp'.query])]_vars
    /\ [][(ExchangeOkStep /\ pc = "await_cb") => pc' = "loop"]_vars

\* fn: the worker is suspended on its waiter, and the status request made
\* meanwhile was answered 500 instead of the page
C29_Witness ==
    /\ variant = "fn"
    /\ pc = "await_cb"
    /\ AttemptPending
    /\ resp.path = "/status"
    /\ resp.code = 500

(***************************************************************************)
(* Claims about the writers of the statistics store                        *)
(***************************************************************************)
\* C31: a write of the stats file that fails is swallowed and rolls nothing
\* back.  The recordImport or recordSyncStatus call returns, the data in
\* memory is the data with the update applied (the new entry pushed and the
\* log pruned, respectively the new last_sync), and a stats read made
\* afterwards answers from it.
C31_FailedSaveKeepsUpdate ==
    /\ [][(clock' = clock /\ op'.name = "recordImport" /\ ~statsFile')
          => \E ts \in Stamps : data' = recordImport(data, op'.account, ts, Now)]_vars
    /\ [][(clock' = clock /\ op'.name = "recordSyncStatus" /\ ~statsFile')
          => /\ op'.account \in DOMAIN data'.accounts
             /\ data'.accounts[op'.account].last_sync.time = Now
             /\ data'.updatedAt = Now
             /\ ImportsOf(data', op'.account) = ImportsOf(data, op'.account)]_vars
    /\ [](op.name = "recordSyncStatus"
          => getAccountStats(data, op.account, Now).last_sync.time = Now)
    /\ [](op.name = "getAccountStats"
          => op.counts.total = Len(ImportsOf(data, op.account)))

\* the only call made on an account was one recordImport whose write failed,
\* and the read that follows counts the entry
C31_Witness ==
    /\ op.name = "getAccountStats"
    /\ ~statsFile
    /\ clock = 1
    /\ DOMAIN data.accounts = {op.account}
    /\ data.accounts[op.account].last_sync = NoSync
    /\ op.counts.total = 1
    /\ op.counts.day = 1

(***************************************************************************)
(* Claims about the waiter and the awaiting indicator                      *)
(***************************************************************************)
\* the 'awaiting authorization' indicator: fn's stored URL, cls's flag
Indicator == IF variant = "fn" THEN authorizeUrl # 0 ELSE awaitingAuth

\* C32: the indicator is set exactly when the registry holds a waiter for
\* the callback path, and no waiter is registered while the accounts are
\* processed with an authorized client.
C32_IndicatorIffWaiter ==
    /\ Indicator <=> CallbackPath \in DOMAIN authWaiters
    /\ pc \in InPass => CallbackPath \notin DOMAIN authWaiters

\* cls: an account is being processed with the token of the file while the
\* waiter of this cycle's client sits in the registry, the flag not set
C32_Witness ==
    /\ variant = "cls"
    /\ pc = "label_list"
    /\ creds.access # 0
    /\ Registered(authWaiters, gen)
    /\ ~awaitingAuth
    /\ invoked[gen] = 0

(***************************************************************************)
(* Claims about the POP3 session                                           *)
(***************************************************************************)
\* processAccount holds an open session here
SessionOpen == {"stat", "msg", "retr", "import", "dele", "quit"}

InFlight == {"retr", "import", "dele"}

\* C34: a shutdown signal that arrives while message i is in flight does not
\* cut the work on message i short: the pass does not leave the message for
\* the QUIT, a delivery that Gmail answers with an id is followed by the
\* DELE of message i, and an accepted DELE marks it and appends an import
\* record; after that no further message is fetched, and the messages
\* before the break were all fetched.
C34_InFlightCompletes ==
    /\ [][(shuttingDown /\ pc \in InFlight /\ pc' \notin Exited /\ pc' # pc)
            => pc' \in InFlight \cup {"msg"}]_vars
    /\ [][(shuttingDown /\ pc \in InFlight /\ i' = i + 1 /\ h'.api[i] = "id")
            => /\ pc = "dele"
               /\ h'.dele[i] \in {"ok", "fail"}
               /\ h'.dele[i] = "ok"
                    => /\ i \in marked'
                       /\ h'.recorded = h.recorded + 1
                       /\ ImportsOf(data', Acc) # <<>>
                       /\ ImportsOf(data', Acc)[Len(ImportsOf(data', Acc))] = Now]_vars
    /\ [][(shuttingDown /\ pc = "msg") => pc' # "retr"]_vars
    /\ [](pc = "quit" => \A k \in 1..count : k < i => h.res[k] # "none")

\* cls: the signal arrived while message 1 was being fetched; Gmail accepted
\* the message, and the loop stopped before message 2 without a DELE of
\* message 1
C34_Witness ==
    /\ variant = "cls"
    /\ shuttingDown
    /\ pc = "quit"
    /\ i = 2
    /\ count >= 2
    /\ h.api[1] = "id"
    /\ 1 \notin marked
    /\ h.recorded = 0

(***************************************************************************)
(* Claims about the frame of the statistics writers                        *)
(***************************************************************************)
\* C35: recordImport(a) and recordSyncStatus(a, ...) change the record of
\* account a only: the record of every other account (import log and
\* last_sync) is what it was, entries older than the retention horizon
\* included, so they still count in that account's total, no other account
\* is created, and recordSyncStatus leaves the import log of a as it was.
C35_OnlyOwnRecord ==
    /\ [][op'.name \in {"recordImport", "recordSyncStatus"}
            => /\ DOMAIN data'.accounts = DOMAIN data.accounts \cup {op'.account}
               /\ \A b \in DOMAIN data.accounts \ {op'.account} :
                    /\ data'.accounts[b] = data.accounts[b]
                    /\ getAccountStats(data', b, Now').counts.total
                         = Len(ImportsOf(data, b))]_vars
    /\ [][op'.name = "recordSyncStatus"
            => ImportsOf(data', op'.account) = ImportsOf(data, op'.account)]_vars

\* recordImport("A") has just pruned and appended while account B holds an
\* entry older than the retention horizon, which is still counted
C35_Witness ==
    /\ op.name = "recordImport"
    /\ op.account = "A"
    /\ "B" \in DOMAIN data.accounts
    /\ ImportsOf(data, "A") = <<Now>>
    /\ \E k \in DOMAIN ImportsOf(data, "B") :
            ImportsOf(data, "B")[k] < Now - RetentionDays * HoursPerDay
    /\ getAccountStats(data, "B", Now).counts.total = Len(ImportsOf(data, "B"))
    /\ getAccountStats(data, "B", Now).counts.total > 0

\* the windowed counts of c2 are at most those of c1, and the totals agree
NoGrowth(c1, c2) ==
    /\ c2.total = c1.total
    /\ c2.day <= c1.day
    /\ c2.week <= c1.week
    /\ c2.month <= c1.month
    /\ c2.year <= c1.year

\* C36: as long as no recordImport is called, what a statistics read of an
\* account returns can only shrink with time: over every step that is not a
\* recordImport, and so between any two reads at now1 <= now2 with none in
\* between, the total of every account is the same and each windowed count
\* at the later instant is at most the count at the earlier one; two reads
\* in a row at one instant return the same counts.
C36_ReadsShrink ==
    /\ [][op'.name # "recordImport"
            => /\ Now' >= Now
               /\ \A a \in Accounts :
                    LET c1 == getAccountStats(data, a, Now).counts
                        c2 == getAccountStats(data', a, Now').counts
                    IN  c1 = c2 \/ NoGrowth(c1, c2)]_vars
    /\ [][(op.name = "getAccountStats" /\ op'.name = "getAccountStats"
            /\ op'.account = op.account) => op'.counts = op.counts]_vars

\* a read that no longer counts in the day window an entry that a read at
\* the instant of the entry counted there; the total still counts it
C36_Witness ==
    /\ op.name = "getAccountStats"
    /\ Now > Timeline[1]
    /\ ImportsOf(data, op.account) = <<Timeline[1]>>
    /\ getAccountStats(data, op.account, Timeline[1]).counts.day = 1
    /\ getAccountStats(data, op.account, Timeline[1]).counts.total = 1
    /\ op.counts.day = 0
    /\ op.counts.total = 1

====
